---- MODULE Spec2Model ----
(***************************************************************************)
(* Model of backend/main.py (vodcomms MVP): the sessions/chunks store, the *)
(* upload area, and the request handlers create_session, upload_media and  *)
(* process_media with the interleavings the server allows.  process_media  *)
(* is a plain `def` handler, run on the worker thread pool, so several     *)
(* calls run concurrently; upload_media is an `async def` handler without  *)
(* any await, so uploads run one at a time on the event loop, but          *)
(* concurrently with the worker threads.                                   *)
(***************************************************************************)
EXTENDS Integers, Sequences, FiniteSets, TLC

VARIABLES
    db,        \* committed content of app.sqlite: [sessions, chunks]
    lock,      \* connection holding SQLite's write lock, or "none"
    fs,        \* files on disk: entries [path, state], state "partial" | "complete"
    proc,      \* per worker thread: the process_media call it is running
    upl,       \* the upload_media call on the event loop
    created,   \* outcome of the last create_session call
    rdr        \* a get_session / get_chunks call on a worker thread

vars == <<db, lock, fs, proc, upl, created, rdr>>

\* ------------------------------------------------------------------ bounds
\* size of the pool the fresh chunk-id generations (uuid4) are drawn from
NumRunIds == 4

\* ------------------------------------------------------------ constants
NULL == <<>>
UPLOAD_DIR == <<"data", "uploads">>
AUDIO_DIR == <<"data", "audio">>
AudioSuffixes == {".wav", ".mp3", ".m4a", ".ogg", ".flac"}

\* rows the sessions table holds when the server starts (init_storage keeps
\* an existing database: CREATE TABLE IF NOT EXISTS)
StoredIds == {"s1"}
\* ids a request may carry: the stored ones and one that matches no row
RequestIds == StoredIds \cup {"sx"}
ProcThreads == {"p1", "p2"}
\* client-supplied filenames, as their '/'-separated components
Filenames == {<<"clip.mp4">>, <<"a.wav">>, <<"..", "clip.mp4">>, <<"..">>, <<>>}
Titles == {"none", "scrim"}
RunIds == 1..NumRunIds

\* -------------------------------------------------------------- helpers
\* Path(filename).name: the final path component ('' for the empty name)
PathName(f) == IF f = <<>> THEN "" ELSE f[Len(f)]

\* Path.suffix: the final component from its last dot on, '' without one
Suffix(name) ==
    CASE name = "clip.mp4" -> ".mp4"
      [] name = "a.wav" -> ".wav"
      [] name = "b.WAV" -> ".WAV"
      [] name = "c.Mp3" -> ".Mp3"
      [] name = "d.flac" -> ".flac"
      [] OTHER -> ""

\* variant: the suffix is compared as written
LowerSkipped(x) == x

\* str.lower()
Lower(x) ==
    CASE x = ".WAV" -> ".wav"
      [] x = ".Mp3" -> ".mp3"
      [] OTHER -> x

\* Path.suffix.lower()
SuffixLower(name) == Lower(Suffix(name))

WavName(sid) ==
    CASE sid = "s1" -> "s1.wav"
      [] sid = "s2" -> "s2.wav"
      [] sid = "s3" -> "s3.wav"
      [] OTHER -> "sx.wav"

\* dest_dir = UPLOAD_DIR / session_id
DestDir(sid) == UPLOAD_DIR \o <<sid>>

\* variant: the client's filename is joined to the directory as it is
DestPathJoined(sid, f) == UPLOAD_DIR \o <<sid>> \o f

\* dest_path = UPLOAD_DIR / session_id / Path(file.filename).name
DestPath(sid, f) == UPLOAD_DIR \o <<sid, PathName(f)>>

\* variant: every session's audio is extracted to the same file
AudioPathShared(sid) == AUDIO_DIR \o <<"audio.wav">>

\* audio_path = AUDIO_DIR / f"{session_id}.wav"
AudioPath(sid) == AUDIO_DIR \o <<WavName(sid)>>

\* fs holds one entry [path, state] per file that exists
FileState(p) ==
    IF \E f \in fs : f.path = p
    THEN (CHOOSE f \in fs : f.path = p).state
    ELSE "absent"

\* open(path, "wb") truncates or creates; closing leaves the file complete
WriteFile(files, p, st) ==
    {f \in files : f.path # p} \cup {[path |-> p, state |-> st]}

\* dest_dir.mkdir(parents=True, exist_ok=True)
MkDir(files, p) == WriteFile(files, p, "dir")

\* the row INSERTed with the schema's defaults
NewRow == [status |-> "created", media_path |-> NULL, audio_path |-> NULL]

EmptyDb == [sessions |-> [s \in {} |-> NewRow], chunks |-> {}]

\* the three placeholder chunks of one run, ids generated afresh per run
DummyChunks(sid, run) ==
    { [id |-> <<run, 1>>, session_id |-> sid, start_ms |-> 0,
       end_ms |-> 15000, text |-> "Intro and setup for the round."],
      [id |-> <<run, 2>>, session_id |-> sid, start_ms |-> 15000,
       end_ms |-> 30000, text |-> "Key play-by-play comms."],
      [id |-> <<run, 3>>, session_id |-> sid, start_ms |-> 30000,
       end_ms |-> 45000, text |-> "Post-round recap and callouts."] }

RECURSIVE SortByStart(_)
SortByStart(S) ==
    IF S = {} THEN <<>>
    ELSE LET m == CHOOSE x \in S : \A y \in S : x.start_ms <= y.start_ms
         IN  <<m>> \o SortByStart(S \ {m})

RECURSIVE SortByStartDesc(_)
SortByStartDesc(S) ==
    IF S = {} THEN <<>>
    ELSE LET m == CHOOSE x \in S : \A y \in S : x.start_ms >= y.start_ms
         IN  <<m>> \o SortByStartDesc(S \ {m})

\* variant: ORDER BY start_ms DESC
fetch_chunks_desc(d, sid) ==
    SortByStartDesc({c \in d.chunks : c.session_id = sid})

\* SELECT * FROM chunks WHERE session_id = ? ORDER BY start_ms
fetch_chunks(d, sid) == SortByStart({c \in d.chunks : c.session_id = sid})

\* SELECT * FROM sessions WHERE id = ?  (found or not)
SessionExists(d, sid) == sid \in DOMAIN d.sessions

\* variant: the DELETE matches no row
ExecDeleteNothing(d, sid) == d

\* DELETE FROM chunks WHERE session_id = ?
ExecDeleteChunks(d, sid) ==
    [d EXCEPT !.chunks = {c \in @ : c.session_id # sid}]

\* INSERT INTO chunks(...) VALUES (...)  (executemany)
ExecInsertChunks(d, rows) == [d EXCEPT !.chunks = @ \cup rows]

\* variant: the UPDATE writes a status the enum does not have
ExecMarkProcessed(d, sid, ap) ==
    [d EXCEPT !.sessions[sid].status = "processed",
              !.sessions[sid].audio_path = ap]

\* UPDATE sessions SET status = 'ready', audio_path = ? WHERE id = ?
ExecMarkReady(d, sid, ap) ==
    [d EXCEPT !.sessions[sid].status = "ready",
              !.sessions[sid].audio_path = ap]

\* variant: the UPDATE leaves audio_path as it is
ExecUpdateMediaKeepsAudio(d, sid, mp) ==
    [d EXCEPT !.sessions[sid].status = "uploaded",
              !.sessions[sid].media_path = mp]

\* UPDATE sessions SET status = 'uploaded', media_path = ?, audio_path = NULL
ExecUpdateMedia(d, sid, mp) ==
    [d EXCEPT !.sessions[sid].status = "uploaded",
              !.sessions[sid].media_path = mp,
              !.sessions[sid].audio_path = NULL]

\* variant: a connection in autocommit mode (isolation_level=None), where
\* every statement is committed, and the lock released, as it completes
StmtAutocommit(d, w, t) == [db |-> w, lock |-> "none"]

\* A statement run on a connection opened with sqlite3.connect(DB_PATH):
\* the module's default isolation level opens a transaction before the
\* first DML statement, so the statement's effect w stays private to the
\* connection t, which keeps the write lock, and the committed content d
\* is what every other connection reads, until the `with` block commits.
StmtEffect(d, w, t) == [db |-> d, lock |-> t]

\* ids of chunk generations no row and no running call refers to
RunsInUse ==
    {c.id[1] : c \in db.chunks}
    \cup {proc[t].run : t \in ProcThreads}
    \cup UNION {{proc[t].chunks[i].id[1] : i \in 1..Len(proc[t].chunks)}
                : t \in ProcThreads}
    \cup UNION {{c.id[1] : c \in proc[t].work.chunks} : t \in ProcThreads}

\* uuid4(): an id distinct from every id in use
FreshRun == CHOOSE r \in RunIds : r \notin RunsInUse

IdleProc == [pc |-> "idle", sid |-> "none", media_path |-> NULL,
             audio_path |-> NULL, run |-> 0, decoder |-> 0,
             work |-> EmptyDb, status_code |-> 0, detail |-> "none",
             failed_at |-> "none", chunks |-> <<>>]

IdleRdr == [pc |-> "idle", op |-> "none", sid |-> "none", status_code |-> 0,
            status |-> "none", chunks |-> <<>>, sessions |-> <<>>]

IdleUpl == [pc |-> "idle", sid |-> "none", dest_path |-> NULL,
            original_filename |-> <<>>, status_code |-> 0, detail |-> "none"]

\* ----------------------------------------------------------------- Init
Init ==
    /\ db = [sessions |-> [s \in StoredIds |-> NewRow], chunks |-> {}]
    /\ lock = "none"
    /\ fs = {}
    /\ proc = [t \in ProcThreads |-> IdleProc]
    /\ upl = IdleUpl
    /\ created = [status_code |-> 0, title |-> "none"]
    /\ rdr = IdleRdr

\* ------------------------------------------------------- process_media
\* a handler answers the request: status code, detail, and nothing pending
Answer(p, code, detail) ==
    [p EXCEPT !.pc = "done", !.status_code = code, !.detail = detail,
              !.media_path = NULL, !.audio_path = NULL,
              !.work = EmptyDb, !.run = 0]

\* lines 234-239: load the session, require media_path
ProcessBegin(t, sid) ==
    /\ proc[t].pc \in {"idle", "done"}
    /\ LET p0 == [IdleProc EXCEPT !.sid = sid] IN
       proc' = [proc EXCEPT ![t] =
           IF ~SessionExists(db, sid)
           THEN Answer(p0, 404, "Session not found")
           ELSE IF db.sessions[sid].media_path = NULL
           THEN Answer(p0, 400, "Upload a media file before processing.")
           ELSE [p0 EXCEPT !.pc = "exists",
                           !.media_path = db.sessions[sid].media_path]]
    /\ UNCHANGED <<db, lock, fs, upl, created, rdr>>

\* variant: no existence check before extraction
ProcessExistsSkipped(t) ==
    /\ proc[t].pc = "exists"
    /\ proc' = [proc EXCEPT ![t] = [@ EXCEPT !.pc = "extract"]]
    /\ UNCHANGED <<db, lock, fs, upl, created, rdr>>

\* lines 241-243: the stored file must still exist
ProcessExists(t) ==
    /\ proc[t].pc = "exists"
    /\ proc' = [proc EXCEPT ![t] =
           IF FileState(proc[t].media_path) = "absent"
           THEN Answer(@, 400, "Stored media file is missing.")
           ELSE [@ EXCEPT !.pc = "extract"]]
    /\ UNCHANGED <<db, lock, fs, upl, created, rdr>>

\* media_path.suffix.lower() in {...}: already an audio-only type
IsAudioOnly(mp) == SuffixLower(mp[Len(mp)]) \in AudioSuffixes

\* lines 245-269, pass-through branch of extract_audio, then dummy_chunks
ProcessPassThrough(t) ==
    /\ proc[t].pc = "extract"
    /\ IsAudioOnly(proc[t].media_path)
    /\ \E r \in RunIds : r \notin RunsInUse
    /\ proc' = [proc EXCEPT ![t] =
           [@ EXCEPT !.pc = "delete", !.audio_path = proc[t].media_path,
                     !.run = FreshRun]]
    /\ UNCHANGED <<db, lock, fs, upl, created, rdr>>

\* lines 201-229 and 247-269: ffmpeg ran and exited with status 0
ProcessDecodeOk(t) ==
    /\ proc[t].pc = "extract"
    /\ ~IsAudioOnly(proc[t].media_path)
    /\ FileState(proc[t].media_path) # "absent"
    /\ \E r \in RunIds : r \notin RunsInUse
    /\ fs' = WriteFile(fs, AudioPath(proc[t].sid), "complete")
    /\ proc' = [proc EXCEPT ![t] =
           [@ EXCEPT !.pc = "delete", !.audio_path = AudioPath(proc[t].sid),
                     !.run = FreshRun, !.decoder = @ + 1]]
    /\ UNCHANGED <<db, lock, upl, created, rdr>>

\* lines 218-222: the ffmpeg binary cannot be found
ProcessDecoderMissing(t) ==
    /\ proc[t].pc = "extract"
    /\ ~IsAudioOnly(proc[t].media_path)
    /\ proc' = [proc EXCEPT ![t] =
           Answer([@ EXCEPT !.decoder = @ + 1], 500,
                  "ffmpeg is required to extract audio from video files.")]
    /\ UNCHANGED <<db, lock, fs, upl, created, rdr>>

\* variant: the old chunks are deleted before extraction is attempted
ProcessDecodeFailedAfterDelete(t) ==
    /\ proc[t].pc = "extract"
    /\ ~IsAudioOnly(proc[t].media_path)
    /\ lock = "none"
    /\ db' = ExecDeleteChunks(db, proc[t].sid)
    /\ proc' = [proc EXCEPT ![t] =
           Answer([@ EXCEPT !.decoder = @ + 1], 500,
                  "Audio extraction failed")]
    /\ UNCHANGED <<lock, fs, upl, created, rdr>>

\* lines 223-227: ffmpeg exited with a nonzero status
ProcessDecodeFailed(t) ==
    /\ proc[t].pc = "extract"
    /\ ~IsAudioOnly(proc[t].media_path)
    /\ proc' = [proc EXCEPT ![t] =
           Answer([@ EXCEPT !.decoder = @ + 1], 500,
                  "Audio extraction failed")]
    /\ UNCHANGED <<db, lock, fs, upl, created, rdr>>

\* the content a statement of connection t works on: the connection's
\* open transaction, or the committed content when it opens a new one
Base(t) == IF lock = t THEN proc[t].work ELSE db

\* one DML statement of the `with sqlite3.connect(...)` block, lines 271-283
Statement(t, from, to, w) ==
    /\ proc[t].pc = from
    /\ lock \in {"none", t}
    /\ db' = StmtEffect(db, w, t).db
    /\ lock' = StmtEffect(db, w, t).lock
    /\ proc' = [proc EXCEPT ![t] = [@ EXCEPT !.pc = to, !.work = w]]
    /\ UNCHANGED <<fs, upl, created, rdr>>

\* line 272
ProcessDelete(t) ==
    Statement(t, "delete", "insert", ExecDeleteChunks(Base(t), proc[t].sid))

\* lines 273-279
ProcessInsert(t) ==
    Statement(t, "insert", "update",
              ExecInsertChunks(Base(t), DummyChunks(proc[t].sid, proc[t].run)))

\* variant: the UPDATE sets the status only
ProcessUpdateStatusOnly(t) ==
    Statement(t, "update", "commit",
              [Base(t) EXCEPT !.sessions[proc[t].sid].status = "ready"])

\* lines 280-283
ProcessUpdate(t) ==
    Statement(t, "update", "commit",
              ExecMarkReady(Base(t), proc[t].sid, proc[t].audio_path))

\* variant: a transaction that reaches its end is run again from the DELETE
ProcessCommitRestarts(t) ==
    /\ proc[t].pc = "commit"
    /\ db' = db
    /\ lock' = "none"
    /\ proc' = [proc EXCEPT ![t] = [@ EXCEPT !.pc = "delete", !.work = EmptyDb]]
    /\ UNCHANGED <<fs, upl, created, rdr>>

\* leaving the `with` block without an exception commits
ProcessCommit(t) ==
    /\ proc[t].pc = "commit"
    /\ db' = Base(t)
    /\ lock' = "none"
    /\ proc' = [proc EXCEPT ![t] = [@ EXCEPT !.pc = "return", !.work = EmptyDb]]
    /\ UNCHANGED <<fs, upl, created, rdr>>

\* variant: the failing block commits what it has executed so far
ProcessStorageErrorKeepsWork(t) ==
    /\ proc[t].pc \in {"delete", "insert", "update", "commit"}
    /\ db' = Base(t)
    /\ lock' = IF lock = t THEN "none" ELSE lock
    /\ proc' = [proc EXCEPT ![t] =
           Answer([@ EXCEPT !.failed_at = proc[t].pc], 500,
                  "Internal Server Error")]
    /\ UNCHANGED <<fs, upl, created, rdr>>

\* a statement or the commit raises sqlite3.Error (database is locked after
\* the busy timeout, disk full, ...): the `with` block rolls back and the
\* exception reaches the client as a 500
ProcessStorageError(t) ==
    /\ proc[t].pc \in {"delete", "insert", "update", "commit"}
    /\ db' = db
    /\ lock' = IF lock = t THEN "none" ELSE lock
    /\ proc' = [proc EXCEPT ![t] =
           Answer([@ EXCEPT !.failed_at = proc[t].pc], 500,
                  "Internal Server Error")]
    /\ UNCHANGED <<fs, upl, created, rdr>>

\* lines 285-289: the response, chunks read back on a new connection
ProcessReturn(t) ==
    /\ proc[t].pc = "return"
    /\ proc' = [proc EXCEPT ![t] =
           [@ EXCEPT !.pc = "done", !.status_code = 200, !.detail = "ok",
                     !.chunks = fetch_chunks(db, proc[t].sid),
                     !.media_path = NULL, !.run = 0]]
    /\ UNCHANGED <<db, lock, fs, upl, created, rdr>>

\* --------------------------------------------------------- upload_media
UplAnswer(u, code, detail) ==
    [u EXCEPT !.pc = "done", !.status_code = code, !.detail = detail,
              !.dest_path = IF code = 200 THEN @ ELSE NULL,
              !.original_filename = IF code = 200 THEN @ ELSE <<>>]

\* dest_path names a directory when the final component is '' or '..'
IsDirectory(p) == p[Len(p)] \in {"", ".."}

\* variant: the session's directory is created before the session is
\* looked up
UploadBeginMkdirFirst(sid, f) ==
    /\ upl.pc \in {"idle", "done"}
    /\ LET u0 == [IdleUpl EXCEPT !.sid = sid, !.original_filename = f] IN
       IF ~SessionExists(db, sid)
       THEN /\ upl' = UplAnswer(u0, 404, "Session not found")
            /\ fs' = MkDir(fs, DestDir(sid))
       ELSE IF f = <<>>
       THEN /\ upl' = UplAnswer(u0, 400, "Filename is required")
            /\ fs' = MkDir(fs, DestDir(sid))
       ELSE IF IsDirectory(DestPath(sid, f))
       THEN /\ upl' = UplAnswer(u0, 500, "Internal Server Error")
            /\ fs' = MkDir(fs, DestDir(sid))
       ELSE /\ upl' = [u0 EXCEPT !.pc = "copy", !.dest_path = DestPath(sid, f)]
            /\ fs' = WriteFile(MkDir(fs, DestDir(sid)), DestPath(sid, f),
                                "partial")
    /\ UNCHANGED <<db, lock, proc, created, rdr>>

\* lines 169-177: load the session, require a filename, create the
\* session's directory and open the destination for writing
UploadBegin(sid, f) ==
    /\ upl.pc \in {"idle", "done"}
    /\ LET u0 == [IdleUpl EXCEPT !.sid = sid, !.original_filename = f] IN
       IF ~SessionExists(db, sid)
       THEN /\ upl' = UplAnswer(u0, 404, "Session not found")
            /\ fs' = fs
       ELSE IF f = <<>>
       THEN /\ upl' = UplAnswer(u0, 400, "Filename is required")
            /\ fs' = fs
       ELSE IF IsDirectory(DestPath(sid, f))
       THEN /\ upl' = UplAnswer(u0, 500, "Internal Server Error")
            /\ fs' = MkDir(fs, DestDir(sid))
       ELSE /\ upl' = [u0 EXCEPT !.pc = "copy", !.dest_path = DestPath(sid, f)]
            /\ fs' = WriteFile(MkDir(fs, DestDir(sid)), DestPath(sid, f),
                                "partial")
    /\ UNCHANGED <<db, lock, proc, created, rdr>>

\* line 178 and the end of the `with` block: the whole stream is copied
\* and the file closed
UploadCopy ==
    /\ upl.pc = "copy"
    /\ fs' = WriteFile(fs, upl.dest_path, "complete")
    /\ upl' = [upl EXCEPT !.pc = "update"]
    /\ UNCHANGED <<db, lock, proc, created, rdr>>

\* line 178 raises OSError (disk full): the file stays as far as written
UploadCopyFailed ==
    /\ upl.pc = "copy"
    /\ upl' = UplAnswer(upl, 500, "Internal Server Error")
    /\ UNCHANGED <<db, lock, fs, proc, created, rdr>>

\* variant: the UPDATE is followed by a DELETE of the session's chunks
UploadUpdateDropsChunks ==
    /\ upl.pc = "update"
    /\ lock = "none"
    /\ db' = ExecDeleteChunks(ExecUpdateMedia(db, upl.sid, upl.dest_path),
                              upl.sid)
    /\ upl' = UplAnswer(upl, 200, "ok")
    /\ UNCHANGED <<lock, fs, proc, created, rdr>>

\* lines 180-190: the UPDATE, committed at the end of its `with` block
UploadUpdate ==
    /\ upl.pc = "update"
    /\ lock = "none"
    /\ db' = ExecUpdateMedia(db, upl.sid, upl.dest_path)
    /\ upl' = UplAnswer(upl, 200, "ok")
    /\ UNCHANGED <<lock, fs, proc, created, rdr>>

\* the UPDATE raises sqlite3.Error (database is locked, disk full)
UploadStorageError ==
    /\ upl.pc = "update"
    /\ upl' = UplAnswer(upl, 500, "Internal Server Error")
    /\ UNCHANGED <<db, lock, fs, proc, created, rdr>>

\* ------------------------------------------------------- create_session
\* the columns the INSERT of lines 131-132 names, and the values line 134
\* binds to its four '?' placeholders
InsertColumns == <<"id", "title", "status", "youtube_url", "created_at">>
InsertValues(sid, title, url, at) == <<sid, title, url, at>>

\* str(uuid.uuid4()): an id no stored session has
NewId == "new"

\* lines 126-143: the INSERT names five columns and supplies four values,
\* which SQLite rejects when it prepares the statement (sqlite3.
\* OperationalError: 4 values for 5 columns); no row is written and the
\* exception reaches the client as a 500
create_session(title) ==
    /\ IF Len(InsertValues(NewId, title, "none", "now")) = Len(InsertColumns)
       THEN /\ db' = [db EXCEPT !.sessions = (NewId :> NewRow) @@ @]
            /\ created' = [status_code |-> 200, title |-> title]
       ELSE /\ db' = db
            /\ created' = [status_code |-> 500, title |-> title]
    /\ UNCHANGED <<lock, fs, proc, upl, rdr>>

\* ------------------------------------------- get_session and get_chunks
Ops == {"get_session", "get_chunks"}

\* lines 158 and 164: fetch_session on a connection of its own
ReadBegin(op, sid) ==
    /\ rdr.pc \in {"idle", "done"}
    /\ rdr' = IF ~SessionExists(db, sid)
              THEN [IdleRdr EXCEPT !.pc = "done", !.op = op, !.sid = sid,
                                   !.status_code = 404]
              ELSE [IdleRdr EXCEPT !.pc = "chunks", !.op = op, !.sid = sid,
                       !.status = IF op = "get_session"
                                  THEN db.sessions[sid].status ELSE "none"]
    /\ UNCHANGED <<db, lock, fs, proc, upl, created>>

\* lines 159-160 and 165: fetch_chunks on another connection, then the
\* response
ReadChunks ==
    /\ rdr.pc = "chunks"
    /\ rdr' = [rdr EXCEPT !.pc = "done", !.status_code = 200,
                          !.chunks = fetch_chunks(db, rdr.sid)]
    /\ UNCHANGED <<db, lock, fs, proc, upl, created>>

\* created_at of the stored sessions, as <<seconds, microseconds>>: the
\* text datetime.utcnow().isoformat() + "Z" written by line 127
CreatedAt(sid) ==
    CASE sid = "s1" -> <<100, 100000>>
      [] sid = "s2" -> <<100, 900000>>
      [] sid = "s3" -> <<99, 500000>>
      [] OTHER -> <<0, 0>>

\* SQLite datetime(created_at): 'YYYY-MM-DD HH:MM:SS', the fraction dropped
SqlDatetime(ts) == ts[1]

\* the orders in which a result set over ids can be returned
Orderings(ids) ==
    {q \in [1..Cardinality(ids) -> ids] :
        \A i, j \in 1..Cardinality(ids) : i # j => q[i] # q[j]}

\* lines 146-153: SELECT * FROM sessions ORDER BY datetime(created_at) DESC;
\* rows with equal sort keys come in an order SQL leaves open
list_sessions ==
    /\ rdr.pc \in {"idle", "done"}
    /\ \E q \in Orderings(DOMAIN db.sessions) :
          /\ \A i, j \in 1..Len(q) :
                i < j => SqlDatetime(CreatedAt(q[i]))
                           >= SqlDatetime(CreatedAt(q[j]))
          /\ rdr' = [IdleRdr EXCEPT !.pc = "done", !.op = "list_sessions",
                                    !.status_code = 200, !.sessions = q]
    /\ UNCHANGED <<db, lock, fs, proc, upl, created>>

\* ---------------------------------------------------------- environment
\* a stored media file is moved or deleted out of band
RemoveFile(p) ==
    /\ FileState(p) = "complete"
    /\ SubSeq(p, 1, 2) = UPLOAD_DIR
    /\ upl.pc = "copy" => upl.dest_path # p
    /\ fs' = {f \in fs : f.path # p}
    /\ UNCHANGED <<db, lock, proc, upl, created, rdr>>

\* ----------------------------------------------------------------- Next
\* One worker thread serving process requests, concurrently with the event
\* loop's uploads, create_session calls and out-of-band file removal.
Worker == "p1"

Next ==
    \/ \E sid \in RequestIds : ProcessBegin(Worker, sid)
    \/ ProcessExists(Worker)
    \/ ProcessPassThrough(Worker)
    \/ ProcessDecodeOk(Worker)
    \/ ProcessDecoderMissing(Worker)
    \/ ProcessDecodeFailed(Worker)
    \/ ProcessDelete(Worker)
    \/ ProcessInsert(Worker)
    \/ ProcessUpdate(Worker)
    \/ ProcessCommit(Worker)
    \/ ProcessStorageError(Worker)
    \/ ProcessReturn(Worker)
    \/ \E sid \in RequestIds, f \in Filenames : UploadBegin(sid, f)
    \/ UploadCopy
    \/ UploadCopyFailed
    \/ UploadUpdate
    \/ UploadStorageError
    \/ \E title \in Titles : create_session(title)
    \/ \E f \in fs : RemoveFile(f.path)

Spec == Init /\ [][Next]_vars

\* Every worker thread serving process requests on the stored sessions,
\* concurrently with each other and with uploads of clip.mp4.
ConcFilenames == {<<"clip.mp4">>}

NextConc ==
    \/ \E t \in ProcThreads, sid \in StoredIds : ProcessBegin(t, sid)
    \/ \E t \in ProcThreads : ProcessExists(t)
    \/ \E t \in ProcThreads : ProcessDecodeOk(t)
    \/ \E t \in ProcThreads : ProcessDecodeFailed(t)
    \/ \E t \in ProcThreads : ProcessDelete(t)
    \/ \E t \in ProcThreads : ProcessInsert(t)
    \/ \E t \in ProcThreads : ProcessUpdate(t)
    \/ \E t \in ProcThreads : ProcessCommit(t)
    \/ \E t \in ProcThreads : ProcessStorageError(t)
    \/ \E t \in ProcThreads : ProcessReturn(t)
    \/ \E sid \in StoredIds, f \in ConcFilenames : UploadBegin(sid, f)
    \/ UploadCopy
    \/ UploadUpdate

SpecConc == Init /\ [][NextConc]_vars

\* One worker thread running process, the uploads of clip.mp4, and a second
\* worker thread serving the readers get_session and get_chunks.
NextRead ==
    \/ \E sid \in RequestIds : ProcessBegin(Worker, sid)
    \/ ProcessExists(Worker)
    \/ ProcessDecodeOk(Worker)
    \/ ProcessDelete(Worker)
    \/ ProcessInsert(Worker)
    \/ ProcessUpdate(Worker)
    \/ ProcessCommit(Worker)
    \/ ProcessStorageError(Worker)
    \/ ProcessReturn(Worker)
    \/ \E sid \in RequestIds, f \in ConcFilenames : UploadBegin(sid, f)
    \/ UploadCopy
    \/ UploadUpdate
    \/ \E op \in Ops, sid \in RequestIds : ReadBegin(op, sid)
    \/ ReadChunks

SpecRead == Init /\ [][NextRead]_vars

\* One worker thread running process on uploads whose filenames carry the
\* extensions extract_audio distinguishes, in either letter case.
ExtFilenames == {<<"clip.mp4">>, <<"a.wav">>, <<"b.WAV">>, <<"c.Mp3">>,
                 <<"d.flac">>, <<"notes">>}

NextExtract ==
    \/ \E sid \in StoredIds : ProcessBegin(Worker, sid)
    \/ ProcessExists(Worker)
    \/ ProcessPassThrough(Worker)
    \/ ProcessDecodeOk(Worker)
    \/ ProcessDecoderMissing(Worker)
    \/ ProcessDecodeFailed(Worker)
    \/ ProcessDelete(Worker)
    \/ ProcessInsert(Worker)
    \/ ProcessUpdate(Worker)
    \/ ProcessCommit(Worker)
    \/ ProcessReturn(Worker)
    \/ \E sid \in StoredIds, f \in ExtFilenames : UploadBegin(sid, f)
    \/ UploadCopy
    \/ UploadUpdate

SpecExtract == Init /\ [][NextExtract]_vars

\* A store holding three sessions, two of them created within the same
\* second; one worker, uploads and the session listing.
ListIds == {"s1", "s2", "s3"}

InitList ==
    /\ db = [sessions |-> [s \in ListIds |-> NewRow], chunks |-> {}]
    /\ lock = "none"
    /\ fs = {}
    /\ proc = [t \in ProcThreads |-> IdleProc]
    /\ upl = IdleUpl
    /\ created = [status_code |-> 0, title |-> "none"]
    /\ rdr = IdleRdr

NextList ==
    \/ \E sid \in ListIds : ProcessBegin(Worker, sid)
    \/ ProcessExists(Worker)
    \/ ProcessDecodeOk(Worker)
    \/ ProcessDelete(Worker)
    \/ ProcessInsert(Worker)
    \/ ProcessUpdate(Worker)
    \/ ProcessCommit(Worker)
    \/ ProcessReturn(Worker)
    \/ \E sid \in ListIds, f \in ConcFilenames : UploadBegin(sid, f)
    \/ UploadCopy
    \/ UploadUpdate
    \/ list_sessions

SpecList == InitList /\ [][NextList]_vars

\* A store holding two sessions; both worker threads run process on either
\* session, concurrently with each other and with uploads to either.
MultiIds == {"s1", "s2"}

InitMulti ==
    /\ db = [sessions |-> [s \in MultiIds |-> NewRow], chunks |-> {}]
    /\ lock = "none"
    /\ fs = {}
    /\ proc = [t \in ProcThreads |-> IdleProc]
    /\ upl = IdleUpl
    /\ created = [status_code |-> 0, title |-> "none"]
    /\ rdr = IdleRdr

NextMulti ==
    \/ \E t \in ProcThreads, sid \in MultiIds : ProcessBegin(t, sid)
    \/ \E t \in ProcThreads : ProcessExists(t)
    \/ \E t \in ProcThreads : ProcessDecodeOk(t)
    \/ \E t \in ProcThreads : ProcessDecodeFailed(t)
    \/ \E t \in ProcThreads : ProcessDelete(t)
    \/ \E t \in ProcThreads : ProcessInsert(t)
    \/ \E t \in ProcThreads : ProcessUpdate(t)
    \/ \E t \in ProcThreads : ProcessCommit(t)
    \/ \E t \in ProcThreads : ProcessStorageError(t)
    \/ \E t \in ProcThreads : ProcessReturn(t)
    \/ \E sid \in MultiIds, f \in ConcFilenames : UploadBegin(sid, f)
    \/ UploadCopy
    \/ UploadUpdate

SpecMulti == InitMulti /\ [][NextMulti]_vars

\* The steps of a process call that thread t has begun. The handler runs on
\* a thread of the pool, which the operating system keeps scheduling; a
\* statement that waits for the write lock ends with the lock or with the
\* busy timeout; the decoder is taken to terminate.
ProcStep(t) ==
    \/ ProcessExists(t)
    \/ ProcessDecodeOk(t)
    \/ ProcessDecodeFailed(t)
    \/ ProcessDelete(t)
    \/ ProcessInsert(t)
    \/ ProcessUpdate(t)
    \/ ProcessCommit(t)
    \/ ProcessStorageError(t)
    \/ ProcessReturn(t)

\* Worker runs process on s1; the other thread runs process on either
\* session; uploads go to s1. The store starts as it is after clip.mp4 was
\* uploaded to s2.
Other == "p2"

InitLive ==
    /\ db = ExecUpdateMedia([sessions |-> [s \in MultiIds |-> NewRow],
                             chunks |-> {}],
                            "s2", DestPath("s2", <<"clip.mp4">>))
    /\ lock = "none"
    /\ fs = WriteFile(MkDir({}, DestDir("s2")),
                      DestPath("s2", <<"clip.mp4">>), "complete")
    /\ proc = [t \in ProcThreads |-> IdleProc]
    /\ upl = IdleUpl
    /\ created = [status_code |-> 0, title |-> "none"]
    /\ rdr = IdleRdr

NextLive ==
    \/ ProcessBegin(Worker, "s1")
    \/ \E sid \in MultiIds : ProcessBegin(Other, sid)
    \/ \E t \in ProcThreads : ProcStep(t)
    \/ \E f \in ConcFilenames : UploadBegin("s1", f)
    \/ UploadCopy
    \/ UploadUpdate

SpecLive ==
    /\ InitLive /\ [][NextLive]_vars
    /\ \A t \in ProcThreads : WF_vars(ProcStep(t))

\* ===================================================================
\* Properties
\* ===================================================================
Statuses == {"created", "uploaded", "ready"}

ChunksOf(d, sid) == {c \in d.chunks : c.session_id = sid}

Triple(c) == <<c.start_ms, c.end_ms, c.text>>

\* thread t takes the step that commits its process transaction
Commits(t) == proc[t].pc = "commit" /\ proc'[t].pc = "return"

\* the event loop takes the step that runs the upload's UPDATE
UploadUpdates == upl.pc = "update" /\ upl'.pc = "done" /\ upl'.status_code = 200

\* C1: in every reachable state, a session that has at least one chunk in
\* the store has status 'ready'.
C1_ChunksOnlyIfReady ==
    \A s \in DOMAIN db.sessions :
        ChunksOf(db, s) # {} => db.sessions[s].status = "ready"

\* C2: a session's status changes only along created->uploaded (upload),
\* uploaded->ready (process) and ready->uploaded (upload), or keeps its
\* value; it is always one of created, uploaded, ready, never returns to
\* 'created' and never goes from 'created' to 'ready'; no session row
\* disappears.
StatusEdges == {<<"created", "uploaded">>, <<"uploaded", "ready">>,
                <<"ready", "uploaded">>}

C2_Step ==
    /\ DOMAIN db.sessions \subseteq DOMAIN db'.sessions
    /\ \A s \in DOMAIN db.sessions :
         LET a == db.sessions[s].status
             b == db'.sessions[s].status
         IN  /\ b \in Statuses
             /\ a = b \/ <<a, b>> \in StatusEdges
             /\ a # b /\ b = "uploaded" => UploadUpdates /\ upl.sid = s
             /\ a # b /\ b = "ready" =>
                    \E t \in ProcThreads : Commits(t) /\ proc[t].sid = s

C2_StatusEdges == [][C2_Step]_vars

\* C2 witness: a session that went created -> uploaded -> ready -> uploaded
C2_Witness ==
    \E s \in DOMAIN db.sessions :
        db.sessions[s].status = "uploaded" /\ ChunksOf(db, s) # {}

\* C3: the delete / insert / update sequence of process is all-or-nothing.
\* A step of a process call other than its commit, in particular a failing
\* statement, leaves the committed store as it was; the chunks of a session
\* change only together with its status becoming 'ready' and its
\* audio_path being set; and neither the store nor a get_session response
\* ever shows a session 'ready' with zero chunks.
C3_State ==
    /\ \A s \in DOMAIN db.sessions :
          db.sessions[s].status = "ready" => ChunksOf(db, s) # {}
    /\ (rdr.pc = "done" /\ rdr.op = "get_session" /\ rdr.status = "ready")
          => rdr.chunks # <<>>

C3_Step ==
    /\ \A t \in ProcThreads :
          proc'[t] # proc[t] /\ ~Commits(t) => db' = db
    /\ \A t \in ProcThreads :
          proc[t].pc \in {"delete", "insert", "update", "commit"}
          /\ proc'[t].pc = "done"
          => db' = db /\ lock' # t /\ proc'[t].status_code = 500
    /\ \A s \in DOMAIN db.sessions :
          ChunksOf(db', s) # ChunksOf(db, s)
          => /\ db'.sessions[s].status = "ready"
             /\ db'.sessions[s].audio_path # NULL
             /\ ChunksOf(db', s) # {}

C4_SingleRun ==
    \A s \in DOMAIN db.sessions :
        LET cs == ChunksOf(db, s) IN
        /\ Cardinality(cs) \in {0, 3}
        /\ \A c \in cs : c.start_ms < c.end_ms
        /\ \A c, e \in cs :
              c # e => c.end_ms <= e.start_ms \/ e.end_ms <= c.start_ms
        /\ \A c, e \in cs : c.id[1] = e.id[1]
        /\ cs # {} => \E r \in RunIds : cs = DummyChunks(s, r)

\* C4 witness: one call is inside its transaction on a session that has
\* chunks while another call on the same session is about to start its own
C4_Witness ==
    \E t, u \in ProcThreads :
        /\ t # u /\ proc[t].sid = proc[u].sid
        /\ proc[t].pc = "update" /\ lock = t
        /\ proc[u].pc = "delete"
        /\ ChunksOf(db, proc[t].sid) # {}

\* what extract_audio returns for a media path
ExtractTarget(sid, mp) == IF IsAudioOnly(mp) THEN mp ELSE AudioPath(sid)

\* C5: whenever a session is 'ready', its audio_path is the result of
\* extracting the media file currently recorded in media_path.
C5_ReadyAudioMatchesMedia ==
    \A s \in DOMAIN db.sessions :
        db.sessions[s].status = "ready"
        => /\ db.sessions[s].media_path # NULL
           /\ db.sessions[s].audio_path
                = ExtractTarget(s, db.sessions[s].media_path)

\* C6: a process run on a session that already has chunks replaces them by
\* chunks with the same (start_ms, end_ms, text) triples: the set of
\* triples and the number of chunks are unchanged and no old row remains.
C6_Step ==
    \A t \in ProcThreads :
        Commits(t) /\ ChunksOf(db, proc[t].sid) # {}
        => LET old == ChunksOf(db, proc[t].sid)
               new == ChunksOf(db', proc[t].sid)
           IN  /\ {Triple(c) : c \in new} = {Triple(c) : c \in old}
               /\ Cardinality(new) = Cardinality(old)
               /\ new \cap old = {}

C6_Idempotent == [][C6_Step]_vars

\* C6 witness: a second run has committed over the chunks of a first one
C6_Witness ==
    \E s \in DOMAIN db.sessions :
        /\ db.sessions[s].status = "ready"
        /\ \E c \in ChunksOf(db, s) : c.id[1] >= 2

ExpectedTriples ==
    << <<0, 15000, "Intro and setup for the round.">>,
       <<15000, 30000, "Key play-by-play comms.">>,
       <<30000, 45000, "Post-round recap and callouts.">> >>

TriplesSeq(cs) == [i \in 1..Len(cs) |-> Triple(cs[i])]

\* C7: when a process call commits, the session is 'ready', its audio_path
\* is the extractor's result for the media the call read, and list_chunks
\* gives exactly the three placeholder chunks in ascending start_ms order,
\* all of this run; the call's response carries the same three chunks.
C7_Step ==
    \A t \in ProcThreads :
        /\ Commits(t) =>
             LET s == proc[t].sid IN
             /\ db'.sessions[s].status = "ready"
             /\ db'.sessions[s].audio_path = proc[t].audio_path
             /\ proc[t].audio_path = ExtractTarget(s, proc[t].media_path)
             /\ TriplesSeq(fetch_chunks(db', s)) = ExpectedTriples
             /\ \A c \in ChunksOf(db', s) : c.id[1] = proc[t].run
        /\ proc[t].pc = "return" /\ proc'[t].pc = "done" =>
             /\ proc'[t].status_code = 200
             /\ TriplesSeq(proc'[t].chunks) = ExpectedTriples

C7_ProcessResult == [][C7_Step]_vars

\* C7 witness: clip.mp4 was uploaded to s1 and a process call answered 200
C7_Witness ==
    /\ proc[Worker].pc = "done" /\ proc[Worker].status_code = 200
    /\ proc[Worker].sid = "s1" /\ Len(proc[Worker].chunks) = 3
    /\ db.sessions["s1"].status = "ready"
    /\ db.sessions["s1"].media_path = DestPath("s1", <<"clip.mp4">>)
    /\ db.sessions["s1"].audio_path = AudioPath("s1")

\* C8: every create_session call succeeds and persists a new session with
\* a fresh id, status 'created' and no media_path or audio_path.
C8_CreateSucceeds ==
    created.status_code # 0
    => /\ created.status_code = 200
       /\ NewId \in DOMAIN db.sessions
       /\ db.sessions[NewId] = NewRow

\* C9: when the decoder fails (binary missing or nonzero exit), the call
\* answers with an error and the store is what it was: neither the failing
\* step nor any earlier step of the call changes sessions or chunks.
C9_Step ==
    \A t \in ProcThreads :
        /\ proc[t].pc = "extract" /\ proc'[t].pc = "done"
           => /\ proc'[t].status_code = 500
              /\ proc'[t].decoder = 1
              /\ db' = db
        /\ proc[t].pc \in {"idle", "done", "exists", "extract"}
           /\ proc'[t] # proc[t]
           => db' = db

C9_DecoderFailure == [][C9_Step]_vars

\* C9 witness: the decoder exited nonzero for a session that was already
\* 'ready' with chunks of a previous run
C9_Witness ==
    \E t \in ProcThreads :
        /\ proc[t].pc = "done" /\ proc[t].detail = "Audio extraction failed"
        /\ db.sessions[proc[t].sid].status = "ready"
        /\ ChunksOf(db, proc[t].sid) # {}

\* C10: process answers 400 when media_path is unset, and 400 when the
\* recorded file is missing; in both cases the decoder is not invoked and
\* the store and the files are unchanged.  media_path is checked first:
\* the file check and the extraction only run with a media_path.
C10_State ==
    \A t \in ProcThreads :
        /\ proc[t].status_code = 400 => proc[t].decoder = 0
        /\ proc[t].pc \in {"exists", "extract"} => proc[t].media_path # NULL

C10_Step ==
    \A t \in ProcThreads :
        /\ ( /\ proc[t].pc \in {"idle", "done"} /\ proc'[t] # proc[t]
             /\ SessionExists(db, proc'[t].sid)
             /\ db.sessions[proc'[t].sid].media_path = NULL )
           => /\ proc'[t].pc = "done" /\ proc'[t].status_code = 400
              /\ proc'[t].detail = "Upload a media file before processing."
              /\ proc'[t].decoder = 0
              /\ db' = db /\ fs' = fs
        /\ ( /\ proc[t].pc = "exists" /\ proc'[t] # proc[t]
             /\ FileState(proc[t].media_path) = "absent" )
           => /\ proc'[t].pc = "done" /\ proc'[t].status_code = 400
              /\ proc'[t].detail = "Stored media file is missing."
              /\ proc'[t].decoder = 0
              /\ db' = db /\ fs' = fs

C10_InvalidState == []C10_State /\ [][C10_Step]_vars

\* C10 witness: process found the recorded file of a 'ready' session gone
C10_Witness ==
    \E t \in ProcThreads :
        /\ proc[t].pc = "done"
        /\ proc[t].detail = "Stored media file is missing."
        /\ db.sessions[proc[t].sid].status = "ready"


\* C11: a successful upload, from any prior status, leaves the session
\* 'uploaded' with media_path the path of the file just stored and
\* audio_path unset; the row is written only by the upload's last step,
\* which runs after the file has been written completely and closed.
C11_State ==
    upl.pc = "update" => FileState(upl.dest_path) # "partial"

C11_Step ==
    /\ UploadUpdates =>
         /\ db'.sessions[upl.sid] =
                [status |-> "uploaded", media_path |-> upl.dest_path,
                 audio_path |-> NULL]
         /\ upl.dest_path = DestPath(upl.sid, upl.original_filename)
         /\ upl'.dest_path = upl.dest_path
         /\ FileState(upl.dest_path) # "partial"
    /\ upl' # upl /\ ~UploadUpdates => db' = db

C11_UploadResult == []C11_State /\ [][C11_Step]_vars

\* C11 witness: an upload to a session that was 'ready' has just answered
C11_Witness ==
    /\ upl.pc = "done" /\ upl.status_code = 200
    /\ SessionExists(db, upl.sid)
    /\ db.sessions[upl.sid] =
          [status |-> "uploaded", media_path |-> upl.dest_path,
           audio_path |-> NULL]
    /\ ChunksOf(db, upl.sid) # {}

\* C12: whenever a process call is about to open the recorded media file
\* (existence check, or decoder input), that file is not partially written.
C12_NoPartialRead ==
    \A t \in ProcThreads :
        ( \/ proc[t].pc = "exists"
          \/ proc[t].pc = "extract" /\ ~IsAudioOnly(proc[t].media_path) )
        => FileState(proc[t].media_path) # "partial"

\* C13: every file an upload writes is a direct child of its session's own
\* directory UPLOAD_DIR/<session_id>/, whatever the client's filename, and
\* the media_path recorded for a session is such a child of its directory.
InSessionDir(p, sid) ==
    /\ Len(p) = Len(UPLOAD_DIR) + 2
    /\ SubSeq(p, 1, Len(UPLOAD_DIR) + 1) = UPLOAD_DIR \o <<sid>>
    /\ p[Len(p)] \notin {"", ".", ".."}

C13_State ==
    /\ \A f \in fs :
          \E s \in DOMAIN db.sessions :
              \/ f.path = AUDIO_DIR \o <<WavName(s)>>
              \/ f.path = UPLOAD_DIR \o <<s>> /\ f.state = "dir"
              \/ InSessionDir(f.path, s) /\ f.state \in {"partial", "complete"}
    /\ \A s \in DOMAIN db.sessions :
          db.sessions[s].media_path # NULL
          => InSessionDir(db.sessions[s].media_path, s)
    /\ upl.dest_path # NULL => InSessionDir(upl.dest_path, upl.sid)

C13_Step ==
    /\ upl' # upl =>
         \A f \in fs' \ fs :
             \/ f.path = UPLOAD_DIR \o <<upl'.sid>> /\ f.state = "dir"
             \/ f.path = upl'.dest_path /\ InSessionDir(f.path, upl'.sid)
             \/ f.path = upl.dest_path /\ InSessionDir(f.path, upl.sid)
    /\ UploadUpdates => db'.sessions[upl.sid].media_path = upl.dest_path

C13_NoTraversal == []C13_State /\ [][C13_Step]_vars

\* C13 witness: an upload whose filename starts with '..' has answered and
\* its file is stored, and recorded, inside the session's directory
C13_Witness ==
    /\ upl.pc = "done" /\ upl.status_code = 200
    /\ Len(upl.original_filename) = 2 /\ upl.original_filename[1] = ".."
    /\ db.sessions[upl.sid].media_path = upl.dest_path
    /\ FileState(upl.dest_path) = "complete"


\* C14: for a media file whose extension is wav, mp3, m4a, ogg or flac in
\* any letter case, process sets audio_path to media_path and never invokes
\* the decoder; for any other file the decoder is invoked exactly once and
\* a successful run sets audio_path to AUDIO_DIR/<session_id>.wav.
AudioOnlyNames == {"a.wav", "b.WAV", "c.Mp3", "d.flac"}

HasAudioName(mp) == mp[Len(mp)] \in AudioOnlyNames

C14_State ==
    \A t \in ProcThreads :
        /\ proc[t].decoder \in {0, 1}
        /\ proc[t].pc \in {"delete", "insert", "update", "commit"}
           => IF HasAudioName(proc[t].media_path)
              THEN proc[t].decoder = 0
                   /\ proc[t].audio_path = proc[t].media_path
              ELSE proc[t].decoder = 1
                   /\ proc[t].audio_path = AUDIO_DIR \o <<WavName(proc[t].sid)>>

C14_Step ==
    \A t \in ProcThreads :
        /\ proc[t].pc = "extract" /\ proc'[t] # proc[t]
           => IF HasAudioName(proc[t].media_path)
              THEN /\ proc'[t].pc = "delete" /\ proc'[t].decoder = 0
                   /\ fs' = fs
              ELSE /\ proc'[t].decoder = 1
                   /\ proc'[t].pc \in {"delete", "done"}
                   /\ proc'[t].pc = "done" => proc'[t].status_code = 500
        /\ proc'[t].decoder > proc[t].decoder => proc[t].pc = "extract"
        /\ Commits(t) => db'.sessions[proc[t].sid].audio_path
                            = proc[t].audio_path

C14_Extraction == []C14_State /\ [][C14_Step]_vars

\* C14 witness: a file with an upper-case audio extension was processed
\* without the decoder, and audio_path is the media path itself
C14_Witness ==
    \E t \in ProcThreads, s \in DOMAIN db.sessions :
        /\ proc[t].pc = "done" /\ proc[t].status_code = 200
        /\ proc[t].sid = s /\ proc[t].decoder = 0
        /\ db.sessions[s].status = "ready"
        /\ db.sessions[s].media_path = DestPath(s, <<"b.WAV">>)
        /\ db.sessions[s].audio_path = db.sessions[s].media_path


\* C15: list_sessions returns every stored session exactly once, and a
\* session created strictly later (at the full precision of created_at,
\* sub-second digits included) comes before one created earlier.
Later(a, b) == a[1] > b[1] \/ (a[1] = b[1] /\ a[2] > b[2])

C15_ListOrdered ==
    rdr.pc = "done" /\ rdr.op = "list_sessions"
    => /\ {rdr.sessions[i] : i \in 1..Len(rdr.sessions)} = DOMAIN db.sessions
       /\ Len(rdr.sessions) = Cardinality(DOMAIN db.sessions)
       /\ \A i, j \in 1..Len(rdr.sessions) :
             Later(CreatedAt(rdr.sessions[i]), CreatedAt(rdr.sessions[j]))
             => i < j


\* C16: no step of an upload changes any chunk row; a session's chunk set
\* changes only when a process call on that session commits, so after an
\* upload to a 'ready' session the chunks of the previous media are still
\* what get_session and get_chunks return.
C16_Step ==
    /\ upl' # upl => db'.chunks = db.chunks
    /\ \A s \in DOMAIN db.sessions :
          ChunksOf(db', s) # ChunksOf(db, s)
          => \E t \in ProcThreads : Commits(t) /\ proc[t].sid = s
    /\ rdr.pc = "chunks" /\ rdr'.pc = "done"
       => rdr'.chunks = SortByStart(ChunksOf(db, rdr.sid))

C16_UploadKeepsChunks == [][C16_Step]_vars

\* C16 witness: after a successful upload to a processed session,
\* get_session reports status 'uploaded' together with the three chunks of
\* the previous media
C16_Witness ==
    /\ upl.pc = "done" /\ upl.status_code = 200
    /\ rdr.pc = "done" /\ rdr.op = "get_session" /\ rdr.status_code = 200
    /\ rdr.sid = upl.sid /\ rdr.status = "uploaded"
    /\ Len(rdr.chunks) = 3
    /\ \A t \in ProcThreads : proc[t].pc \in {"idle", "done"}

\* C17: upload, process, get_session and get_chunks on an id with no
\* stored session answer 404 and leave the store, the files and the
\* decoder untouched; every chunk row belongs to a stored session.
UnderDir(p, dir) == Len(p) >= Len(dir) /\ SubSeq(p, 1, Len(dir)) = dir

C17_State ==
    /\ \A c \in db.chunks : SessionExists(db, c.session_id)
    /\ \A sid \in RequestIds \ DOMAIN db.sessions, e \in fs :
          ~UnderDir(e.path, DestDir(sid)) /\ e.path # AudioPath(sid)

C17_Step ==
    /\ \A t \in ProcThreads :
          /\ proc[t].pc \in {"idle", "done"}
          /\ proc'[t] # proc[t]
          /\ ~SessionExists(db, proc'[t].sid)
          => /\ proc'[t].pc = "done" /\ proc'[t].status_code = 404
             /\ proc'[t].decoder = 0
             /\ db' = db /\ fs' = fs /\ lock' = lock
    /\ /\ upl.pc \in {"idle", "done"}
       /\ upl' # upl
       /\ ~SessionExists(db, upl'.sid)
       => /\ upl'.pc = "done" /\ upl'.status_code = 404
          /\ db' = db /\ fs' = fs /\ lock' = lock
    /\ /\ rdr.pc \in {"idle", "done"}
       /\ rdr' # rdr
       /\ rdr'.op \in Ops
       /\ ~SessionExists(db, rdr'.sid)
       => /\ rdr'.pc = "done" /\ rdr'.status_code = 404
          /\ rdr'.chunks = <<>>
          /\ db' = db /\ fs' = fs /\ lock' = lock

C17_NotFound == []C17_State /\ [][C17_Step]_vars

\* C17 witness: process, upload and get_chunks have each answered 404 for
\* the unknown id while the store holds a processed session
C17_Witness ==
    /\ \E t \in ProcThreads :
          /\ proc[t].pc = "done" /\ proc[t].status_code = 404
          /\ ~SessionExists(db, proc[t].sid)
    /\ upl.pc = "done" /\ upl.status_code = 404
    /\ ~SessionExists(db, upl.sid)
    /\ rdr.pc = "done" /\ rdr.status_code = 404 /\ rdr.op = "get_chunks"
    /\ ~SessionExists(db, rdr.sid)
    /\ db.chunks # {}


\* C18: every process call that has begun reaches its answer, whatever the
\* other worker thread and the uploads do; a call only moves forward
\* through its steps (nothing is run a second time, the decoder at most
\* once), it answers 200, 400, 404 or 500, and a 200 answer follows a
\* commit that left the session 'ready' and carries the session's chunks.
PcRank(pc) ==
    CASE pc = "idle" -> 0
      [] pc = "exists" -> 1
      [] pc = "extract" -> 2
      [] pc = "delete" -> 3
      [] pc = "insert" -> 4
      [] pc = "update" -> 5
      [] pc = "commit" -> 6
      [] pc = "return" -> 7
      [] OTHER -> 8

C18_State ==
    \A t \in ProcThreads :
        /\ proc[t].decoder <= 1
        /\ proc[t].pc = "done"
           => /\ proc[t].status_code \in {200, 400, 404, 500}
              /\ proc[t].status_code = 200 => Len(proc[t].chunks) = 3
        /\ proc[t].pc # "done" => proc[t].status_code = 0

C18_Step ==
    \A t \in ProcThreads :
        /\ proc[t].pc \notin {"idle", "done"} /\ proc'[t] # proc[t]
           => /\ PcRank(proc'[t].pc) > PcRank(proc[t].pc)
              /\ proc'[t].sid = proc[t].sid
              /\ proc'[t].decoder >= proc[t].decoder
        /\ Commits(t) => db'.sessions[proc[t].sid].status = "ready"
        /\ proc'[t].pc = "done" /\ proc'[t].status_code = 200
           /\ proc[t].pc # "done"
           => proc[t].pc = "return"

C18_Terminates ==
    /\ []C18_State
    /\ [][C18_Step]_vars
    /\ \A t \in ProcThreads :
          (proc[t].pc \notin {"idle", "done"}) ~> (proc[t].pc = "done")

\* C18 witness: a call that waited for the write lock held by a call on
\* another session has ended with an error while that call is still
\* inside its transaction
C18_Witness ==
    \E t, u \in ProcThreads :
        /\ t # u /\ lock = u
        /\ proc[t].pc = "done" /\ proc[t].status_code = 500
        /\ proc[t].failed_at = "delete"
        /\ proc[t].decoder = 1
        /\ proc[u].sid # proc[t].sid


\* C19: in every reachable state, a session's audio_path is set exactly
\* when its status is 'ready', and its media_path is set exactly when its
\* status is 'uploaded' or 'ready'.
C19_StatusAndPaths ==
    \A s \in DOMAIN db.sessions :
        /\ db.sessions[s].audio_path # NULL <=> db.sessions[s].status = "ready"
        /\ db.sessions[s].media_path # NULL
           <=> db.sessions[s].status \in {"uploaded", "ready"}

\* C19 witness: an upload has reset a processed session to 'uploaded' with
\* no audio_path while a process call on it is about to commit 'ready'
C19_Witness ==
    \E t \in ProcThreads :
        /\ proc[t].pc = "commit" /\ lock = t
        /\ SessionExists(db, proc[t].sid)
        /\ db.sessions[proc[t].sid].status = "uploaded"
        /\ db.sessions[proc[t].sid].audio_path = NULL
        /\ db.sessions[proc[t].sid].media_path # NULL
        /\ ChunksOf(db, proc[t].sid) # {}
        /\ proc[t].work.sessions[proc[t].sid].status = "ready"
        /\ proc[t].work.sessions[proc[t].sid].audio_path # NULL


\* C20: a step of a process call or of an upload on session X leaves the
\* row and the chunk set of every other session Y unchanged, and writes
\* nothing under Y's upload directory nor to Y's extracted-audio file.
FilesOf(d, files, sid) ==
    {e \in files : \/ UnderDir(e.path, UPLOAD_DIR \o <<sid>>)
                   \/ e.path = AUDIO_DIR \o <<WavName(sid)>>
                   \/ e.path = d.sessions[sid].audio_path}

Untouched(sid) ==
    /\ db'.sessions[sid] = db.sessions[sid]
    /\ ChunksOf(db', sid) = ChunksOf(db, sid)
    /\ FilesOf(db', fs', sid) = FilesOf(db, fs, sid)

C20_State ==
    \A x, y \in DOMAIN db.sessions :
        x # y => FilesOf(db, fs, x) \cap FilesOf(db, fs, y) = {}

C20_Step ==
    /\ DOMAIN db'.sessions = DOMAIN db.sessions
    /\ \A t \in ProcThreads :
          proc'[t] # proc[t]
          => \A y \in DOMAIN db.sessions \ {proc'[t].sid} : Untouched(y)
    /\ upl' # upl
       => \A y \in DOMAIN db.sessions \ {upl'.sid} : Untouched(y)

C20_Independent == []C20_State /\ [][C20_Step]_vars

\* C20 witness: the two worker threads have processed different sessions
\* to 'ready', each with its own chunks and its own extracted-audio file
C20_Witness ==
    \E t, u \in ProcThreads :
        /\ proc[t].pc = "done" /\ proc[t].status_code = 200
        /\ proc[u].pc = "done" /\ proc[u].status_code = 200
        /\ proc[t].sid # proc[u].sid
        /\ \A s \in {proc[t].sid, proc[u].sid} :
              /\ db.sessions[s].status = "ready"
              /\ Cardinality(ChunksOf(db, s)) = 3
              /\ FileState(db.sessions[s].audio_path) = "complete"
        /\ db.sessions[proc[t].sid].audio_path
             # db.sessions[proc[u].sid].audio_path

====
